---- MODULE Spec2Model ----
(***************************************************************************)
(* A model of the GPR reduced-order surrogate of src/src/gpr.py: the       *)
(* object's attributes, fit, predict, update and the training loop _train. *)
(*                                                                         *)
(* Numbers.  A float is the record [n, d], the rational n/d in lowest      *)
(* terms with d > 0; d = 0 encodes the IEEE results numpy produces for a   *)
(* division by zero: NaN = 0/0, +inf = 1/0, -inf = -1/0.  A posterior      *)
(* standard deviation computed by the GP library is an opaque value        *)
(* [sd, hyp, task, row] tagged with the forward pass that produced it.     *)
(* Matrices are sequences of rows, vectors are sequences of numbers.       *)
(***************************************************************************)
EXTENDS Integers, Sequences, FiniteSets, TLC

(* ------------------------------ bounds --------------------------------- *)
\* largest max_iter a caller passes to fit
MaxIter == 2
\* largest number of calls (fit, predict, update) made on one object
MaxCalls == 3
\* largest number of latent modes the decomposition retains
MaxModes == 2
\* largest number of rows of P_new, A_new and A_sigma_new in one update
MaxNew == 1

(* ------------------------------ numbers -------------------------------- *)
Abs(x) == IF x < 0 THEN -x ELSE x

Sign(x) == IF x < 0 THEN -1 ELSE IF x > 0 THEN 1 ELSE 0

RECURSIVE Gcd(_, _)
Gcd(a, b) == IF b = 0 THEN a ELSE Gcd(b, a % b)

\* the float n/d, normalised
Q(n, d) ==
    IF d = 0 THEN [n |-> Sign(n), d |-> 0]
    ELSE LET g == Gcd(Abs(n), Abs(d))
         IN  [n |-> (Sign(d) * n) \div g, d |-> Abs(d) \div g]

NaN == [n |-> 0, d |-> 0]

IsNaN(a) == a = NaN

IsFinite(a) == a.d # 0

\* a - b (IEEE: NaN propagates, inf - inf = NaN)
FSub(a, b) ==
    IF IsNaN(a) \/ IsNaN(b) THEN NaN
    ELSE IF ~IsFinite(a) /\ ~IsFinite(b) THEN (IF a.n = b.n THEN NaN ELSE a)
    ELSE IF ~IsFinite(a) THEN a
    ELSE IF ~IsFinite(b) THEN Q(-b.n, 0)
    ELSE Q(a.n * b.d - b.n * a.d, a.d * b.d)

\* a / b as numpy divides floats: x/0 is +-inf, 0/0 is NaN, no exception
FDiv(a, b) ==
    IF IsNaN(a) \/ IsNaN(b) THEN NaN
    ELSE IF ~IsFinite(a) /\ ~IsFinite(b) THEN NaN
    ELSE IF ~IsFinite(a) THEN Q(a.n * (IF b.n < 0 THEN -1 ELSE 1), 0)
    ELSE IF ~IsFinite(b) THEN Q(0, 1)
    ELSE Q(a.n * b.d, a.d * b.n)

FAbs(a) == [n |-> Abs(a.n), d |-> a.d]

\* a > b; every comparison with NaN is false
FGt(a, b) ==
    IF IsNaN(a) \/ IsNaN(b) THEN FALSE
    ELSE IF ~IsFinite(a) THEN a.n > 0 /\ a # b
    ELSE IF ~IsFinite(b) THEN b.n < 0
    ELSE a.n * b.d > b.n * a.d

\* a <= b; every comparison with NaN is false
FLe(a, b) == ~IsNaN(a) /\ ~IsNaN(b) /\ ~FGt(a, b)

\* x**2, elementwise; the square of an opaque standard deviation stays opaque
FSq(a) ==
    IF "sd" \in DOMAIN a THEN [sq |-> a]
    ELSE [n |-> a.n * a.n, d |-> a.d * a.d]

\* the standard deviation the forward pass of task `task` gives at training
\* row `row`, made in mode `mode` when `hyp` optimizer steps had been applied
SD(mode, hyp, task, row) == [sd |-> mode, hyp |-> hyp, task |-> task, row |-> row]

(* ------------------------------ matrices ------------------------------- *)
Col(M, i) == [t \in 1..Len(M) |-> M[t][i]]

NCols(M) == IF Len(M) = 0 THEN 0 ELSE Len(M[1])

RECURSIVE SumSeq(_)
SumSeq(s) == IF Len(s) = 0 THEN 0 ELSE s[1] + SumSeq(Tail(s))

RECURSIVE MaxSeq(_)
MaxSeq(s) == IF Len(s) = 1 THEN s[1]
             ELSE LET m == MaxSeq(Tail(s)) IN IF s[1] > m THEN s[1] ELSE m

RECURSIVE MinSeq(_)
MinSeq(s) == IF Len(s) = 1 THEN s[1]
             ELSE LET m == MinSeq(Tail(s)) IN IF s[1] < m THEN s[1] ELSE m

\* the integer square root (exact on the perfect squares the inputs produce)
ISqrt(k) == CHOOSE s \in 0..k : s * s <= k /\ (s + 1) * (s + 1) > k

\* np.linalg.norm of an integer column
Norm(col) == ISqrt(SumSeq([t \in 1..Len(col) |-> col[t] * col[t]]))

(* ------------------------------ trainer -------------------------------- *)
\* loss_old = 1e10 and e = 1e10 before the first iteration.  Losses and
\* rel_error are counted in units of 1e9, so that 1e10 is 10.
Sentinel == 10

\* The while loop of _train: `losses[j+1]` is the loss the j-th forward pass
\* evaluates to.  Returns the number of optimizer steps j and the sequence
\* es of the values e took, one per iteration.
RECURSIVE TrainLoop(_, _, _, _, _, _, _)
RECURSIVE TrainIter(_, _, _, _, _, _, _)
\* (mutant) the loop goes on while e >= rel_error
TrainLoopGe(e, loss_old, j, es, losses, max_iter, rel_error) ==
    IF ~FGt(rel_error, e) /\ j < max_iter
    THEN TrainIter(FAbs(FSub(losses[j + 1], loss_old)), losses[j + 1], j + 1,
                   es, losses, max_iter, rel_error)
    ELSE [j |-> j, es |-> es, e |-> e]

TrainLoop(e, loss_old, j, es, losses, max_iter, rel_error) ==
    IF FGt(e, rel_error) /\ j < max_iter
    THEN TrainIter(FAbs(FSub(losses[j + 1], loss_old)), losses[j + 1], j + 1,
                   es, losses, max_iter, rel_error)
    ELSE [j |-> j, es |-> es, e |-> e]

\* the end of one iteration: e and loss_old are assigned, the optimizer has
\* stepped and j is incremented; the loop condition is tested again
TrainIter(e, loss, j, es, losses, max_iter, rel_error) ==
    TrainLoop(e, loss, j, Append(es, e), losses, max_iter, rel_error)

\* whether a likelihood of this kind has parameters the optimizer trains
Trainable(kind) == kind # "FixedNoise"

\* the heap with object `oid` replaced by (or created as) `rec`
Store(objs, oid, rec) ==
    [o \in (DOMAIN objs) \cup {oid} |-> IF o = oid THEN rec ELSE objs[o]]

\* model.train() / model.eval(): the module and its likelihood submodule
SetMode(objs, m, mode) ==
    [objs EXCEPT ![m.likelihood].mode = mode]

HasNaN(v) == \E t \in 1..Len(v) : IsNaN(v[t])

\* whether the training targets hold a NaN (a vector, or a matrix if multi)
TargetsNaN(multi, Y) ==
    IF multi THEN \E t \in 1..Len(Y) : HasNaN(Y[t]) ELSE HasNaN(Y)

\* output.stddev of a forward pass made when `hyp` steps had been applied:
\* one value per training row (SingleTask, task i), or one row of n_tasks
\* values per training row (MultiTask)
Stddev(multi, mode, hyp, i, nrows, ntasks) ==
    IF multi
    THEN [t \in 1..nrows |-> [c \in 1..ntasks |-> SD(mode, hyp, c, t)]]
    ELSE [t \in 1..nrows |-> SD(mode, hyp, i, t)]

\* the loss each forward pass evaluates to: NaN when the targets hold a NaN
SeenLosses(multi, Y, losses) ==
    [t \in 1..Len(losses) |-> IF TargetsNaN(multi, Y) THEN NaN ELSE losses[t]]

\* model.train(); likelihood.train()
TrainMode(objs, m, lk) ==
    [SetMode(objs, m, "train") EXCEPT ![lk].mode = "train"]

\* j calls of optimizer.step(), the optimizer being built on
\* model.parameters(): the model's own hyperparameters and those of the
\* likelihood attached to the model
OptimizerSteps(objs, m, j) ==
    IF Trainable(objs[m.likelihood].kind)
    THEN [objs EXCEPT ![m.likelihood].hyp = @ + j]
    ELSE objs

\* what _train leaves and returns once its loop has ended as `loop`: with no
\* iteration run, `output` is unbound at the line after the loop
TrainReturn(objs, m, lk, nrows, ntasks, i, multi, loop) ==
    [ok     |-> loop.j > 0,
     error  |-> IF loop.j > 0 THEN "none" ELSE "UnboundLocalError",
     objs   |-> OptimizerSteps(objs, m, loop.j),
     model  |-> [m EXCEPT !.mode = "train", !.hyp = @ + loop.j],
     likelihood |-> lk,
     mll    |-> lk,
     j      |-> loop.j,
     es     |-> loop.es,
     e      |-> loop.e,
     fwd_mode |-> "train",
     fwd_hyp  |-> m.hyp + loop.j - 1,
     Vr_sigma |-> IF loop.j > 0
                  THEN Stddev(multi, "train", m.hyp + loop.j - 1, i, nrows, ntasks)
                  ELSE <<>>]

\* GPR._train(model, likelihood, P0_torch, Vr_torch, i).  m is the model, lk
\* the likelihood handed in (the one the marginal log likelihood is built
\* on), X and Y the training inputs and targets handed in, losses the loss
\* each forward pass evaluates to.
_train(objs, m, lk, X, Y, i, multi, max_iter, rel_error, losses) ==
    TrainReturn(TrainMode(objs, m, lk), m, lk, Len(X),
                IF multi THEN NCols(Y) ELSE 1, i, multi,
                TrainLoop(Q(Sentinel, 1), Q(Sentinel, 1), 0, <<>>,
                          SeenLosses(multi, Y, losses), max_iter,
                          Q(rel_error, 1)))

(* ------------------------------ scaling -------------------------------- *)
\* sqrt of a float (exact on the perfect squares the inputs produce)
FSqrt(a) == Q(ISqrt(a.n), ISqrt(a.d))

\* the scaling methods scale_GPR_data implements
SupportedTypes ==
    {"std", "none", "pareto", "vast", "range", "level", "max", "variance",
     "median", "poisson", "vast_2", "vast_3", "vast_4", "l2-norm"}

\* np.mean(x) of an integer column
Mean(x) == Q(SumSeq(x), Len(x))

\* np.var(x) of an integer column
Var(x) ==
    Q(Len(x) * SumSeq([t \in 1..Len(x) |-> x[t] * x[t]]) - SumSeq(x) * SumSeq(x),
      Len(x) * Len(x))

\* the scale factor of column x; the methods whose statistic is rational
\* (or an exact root on the inputs drawn) are evaluated, the others are
\* supported by the code and never drawn here
ScaleFactor(x, scale_type) ==
    CASE scale_type = "std"      -> FSqrt(Var(x))
      [] scale_type = "none"     -> Q(1, 1)
      [] scale_type = "range"    -> Q(MaxSeq(x) - MinSeq(x), 1)
      [] scale_type = "level"    -> Mean(x)
      [] scale_type = "max"      -> Q(MaxSeq(x), 1)
      [] scale_type = "variance" -> Var(x)
      [] scale_type = "l2-norm"  -> Q(Norm(x), 1)
      [] OTHER                   -> NaN

\* (M - cnt)/scl, row by row
ScaleRows(M, cnt, scl) ==
    [t \in 1..Len(M) |->
        [i \in 1..Len(M[t]) |-> FDiv(FSub(Q(M[t][i], 1), cnt[1][i]), scl[1][i])]]

\* P_cnt (stat = "cnt") or P_scl as scale_GPR_data fills them: every row
\* holds the statistic of each column
Filled(P, scale_type, stat) ==
    [t \in 1..Len(P) |->
        [i \in 1..NCols(P) |-> IF stat = "cnt" THEN Mean(Col(P, i))
                               ELSE ScaleFactor(Col(P, i), scale_type)]]

\* the end of scale_GPR_data: P_cnt and P_scl are stored, P0 is returned
Scaled(P, P_cnt, P_scl) ==
    [ok |-> TRUE, P_cnt |-> P_cnt, P_scl |-> P_scl,
     P0 |-> ScaleRows(P, P_cnt, P_scl)]

\* GPR.scale_GPR_data(P, scale_type): raises NotImplementedError at the first
\* column of an unsupported method, before P_cnt and P_scl are stored
scale_GPR_data(P, scale_type) ==
    IF scale_type \notin SupportedTypes /\ NCols(P) > 0
    THEN [ok |-> FALSE, P_cnt |-> <<>>, P_scl |-> <<>>, P0 |-> <<>>]
    ELSE Scaled(P, Filled(P, scale_type, "cnt"), Filled(P, scale_type, "scl"))

(* ------------------------------ the object ----------------------------- *)
\* GPR.__init__: the attributes fit creates are absent (has = {}) and hold
\* placeholders until fit assigns them
GPR(P, gpr_type) ==
    [P |-> P, gpr_type |-> gpr_type, has |-> {},
     scaleP_type |-> "", max_iter |-> 0, rel_error |-> 0,
     Ar |-> <<>>, r |-> 0, d |-> 0, Sigma_r |-> <<>>,
     P_cnt |-> <<>>, P_scl |-> <<>>, P0 |-> <<>>, Vr |-> <<>>,
     Vr_sigma |-> <<>>, models |-> <<>>, likelihoods |-> <<>>,
     objs |-> <<>>]

\* a likelihood object: GaussianLikelihood, MultitaskGaussianLikelihood or
\* FixedNoiseGaussianLikelihood(noise)
Likelihood(kind, noise) == [kind |-> kind, noise |-> noise, hyp |-> 0, mode |-> "train"]

\* ExactGPModel / BatchIndipendentMultitaskGPModel(X_train, Y_train, likelihood, ..)
ExactGPModel(X, Y, lk) ==
    [train_inputs |-> X, train_targets |-> Y, likelihood |-> lk,
     hyp |-> 0, mode |-> "train"]

\* the matrix whose columns are cols (each of nrows entries)
FromCols(cols, nrows) ==
    [t \in 1..nrows |-> [i \in 1..Len(cols) |-> cols[i][t]]]

\* the SingleTask loop of fit, from mode i on: one deep copy of the
\* likelihood and one model per mode, each trained by _train; a _train that
\* raises ends the loop
RECURSIVE FitBank(_, _, _, _, _, _, _, _, _, _)
RECURSIVE FitBankNext(_, _, _, _, _, _, _, _, _, _, _)
FitBank(i, r, objs, models, cols, P0, Vr, max_iter, rel_error, losses) ==
    IF i > r
    THEN [ok |-> TRUE, error |-> "none", objs |-> objs, models |-> models,
          cols |-> cols]
    ELSE FitBankNext(i, r, objs, models, cols, P0, Vr, max_iter, rel_error, losses,
                     _train(Store(objs, i, Likelihood("Gaussian", <<>>)),
                            ExactGPModel(P0, Col(Vr, i), i), i, P0, Col(Vr, i),
                            i, FALSE, max_iter, rel_error, losses[i]))

\* mode i has been trained with result t: models.append, likelihoods.append
FitBankNext(i, r, objs, models, cols, P0, Vr, max_iter, rel_error, losses, t) ==
    IF ~t.ok
    THEN [ok |-> FALSE, error |-> t.error, objs |-> objs, models |-> models,
          cols |-> cols]
    ELSE FitBank(i + 1, r, t.objs, Append(models, t.model),
                 Append(cols, t.Vr_sigma), P0, Vr, max_iter, rel_error, losses)

\* the attributes fit assigns before the decomposition's result is used
ConfigAttrs == {"scaleP_type", "max_iter", "rel_error", "Ar", "r", "d"}

\* Sigma_r[i] = np.linalg.norm(Ar[:,i])
SigmaOf(Ar) == [i \in 1..NCols(Ar) |-> Q(Norm(Col(Ar, i)), 1)]

\* Vr[:,i] = Ar[:,i]/Sigma_r[i]
Normalize(A, Sigma_r) ==
    [t \in 1..Len(A) |->
        [i \in 1..Len(Sigma_r) |-> FDiv(Q(A[t][i], 1), Sigma_r[i])]]

\* fit up to self.Sigma_r = Sigma_r: the arguments, Ar, r, d and Sigma_r
\* are stored
FitConfig(self, scaleP_type, max_iter, rel_error, Ar) ==
    [self EXCEPT !.scaleP_type = scaleP_type, !.max_iter = max_iter,
                 !.rel_error = rel_error, !.Ar = Ar, !.r = NCols(Ar),
                 !.d = NCols(self.P), !.Sigma_r = SigmaOf(Ar),
                 !.has = @ \cup ConfigAttrs \cup {"Sigma_r"}]

\* scale_GPR_data has returned sc: P_cnt, P_scl, then P0 and Vr are stored
FitStore(self, sc, Vr) ==
    [self EXCEPT !.P_cnt = sc.P_cnt, !.P_scl = sc.P_scl, !.P0 = sc.P0,
                 !.Vr = Vr, !.has = @ \cup {"P_cnt", "P_scl", "P0", "Vr"}]

\* the last lines of fit: Vr_sigma, models and likelihoods are stored.  b is
\* what the training left: a _train that raised leaves none of the three
FitDone(self, b, Vr_sigma, likelihoods) ==
    IF ~b.ok THEN [self |-> self, error |-> b.error]
    ELSE [self |-> [self EXCEPT !.Vr_sigma = Vr_sigma, !.models = b.models,
                                !.likelihoods = likelihoods, !.objs = b.objs,
                                !.has = @ \cup {"Vr_sigma", "models", "likelihoods"}],
          error |-> "none"]

\* the MultiTask branch of fit once its one model is trained with result t
FitMulti(self, t) ==
    FitDone(self, [ok |-> t.ok, error |-> t.error, objs |-> t.objs,
                   models |-> <<t.model>>],
            t.Vr_sigma, <<t.likelihood>>)

\* the SingleTask branch of fit once the loop over the modes ended as b
FitSingle(self, b, p, r) ==
    FitDone(self, b, FromCols(b.cols, p), [i \in 1..r |-> i])

\* fit from the call of scale_GPR_data on; self is the object after
\* FitConfig, sc what scale_GPR_data returned or that it raised
FitModels(self, sc, Vr, r, max_iter, rel_error, losses) ==
    IF ~sc.ok THEN [self |-> self, error |-> "NotImplementedError"]
    ELSE IF self.gpr_type = "MultiTask"
    THEN FitMulti(FitStore(self, sc, Vr),
                  _train(Store(<<>>, 1, Likelihood("MultitaskGaussian", <<>>)),
                         ExactGPModel(sc.P0, Vr, 1), 1, sc.P0, Vr, 1, TRUE,
                         max_iter, rel_error, losses[1]))
    ELSE FitSingle(FitStore(self, sc, Vr),
                   FitBank(1, r, <<>>, <<>>, <<>>, sc.P0, Vr, max_iter,
                           rel_error, losses),
                   Len(Vr), r)

\* GPR.fit(scaleP_type, max_iter, rel_error, ...).  Ar is the coefficient
\* matrix self.decomposition returns, losses[i] the losses the training of
\* model i evaluates to.  Returns the object as the call leaves it and the
\* error raised ("none" when fit returns models, likelihoods).
fit(self, scaleP_type, max_iter, rel_error, Ar, losses) ==
    FitModels(FitConfig(self, scaleP_type, max_iter, rel_error, Ar),
              scale_GPR_data(self.P, scaleP_type),
              Normalize(Ar, SigmaOf(Ar)), NCols(Ar), max_iter, rel_error, losses)

(* ------------------------------ predict -------------------------------- *)
\* what a call that raises returns
NoValue == [P0_star |-> <<>>, shape |-> <<0, 0>>, Sigma_r |-> <<>>]

\* hasattr(self, name)
hasattr(self, name) == name \in self.has

\* (mutant) the rows are centred and scaled with their own statistics
ScaleWithOwn(self, M) ==
    ScaleRows(M, Filled(M, self.scaleP_type, "cnt"), Filled(M, self.scaleP_type, "scl"))

\* (M[:,i] - self.P_cnt[0,i]) / self.P_scl[0,i] for every column i of M
ScaleWithStored(self, M) == ScaleRows(M, self.P_cnt, self.P_scl)

\* models[i].eval() and likelihoods[i].eval() for the models in `idx`
EvalMode(self, idx) ==
    [self EXCEPT !.objs = [o \in DOMAIN self.objs |->
                              IF \E i \in idx : o \in {self.models[i].likelihood,
                                                        self.likelihoods[i]}
                              THEN [self.objs[o] EXCEPT !.mode = "eval"]
                              ELSE self.objs[o]],
                     !.models = [i \in 1..Len(self.models) |->
                                    IF i \in idx
                                    THEN [self.models[i] EXCEPT !.mode = "eval"]
                                    ELSE self.models[i]]]

Min(a, b) == IF a < b THEN a ELSE b

\* P_star[np.newaxis, :] when P_star.ndim < 2
AsRows(P_star) == IF P_star.ndim < 2 THEN <<P_star.val>> ELSE P_star.val

\* the number of columns of V_pred
PredCols(self) ==
    IF self.gpr_type = "MultiTask" THEN NCols(self.models[1].train_targets)
    ELSE self.r

\* the models predict evaluates before it returns or raises
PredModels(self) ==
    IF self.gpr_type = "MultiTask" THEN {1}
    ELSE 1..Min(self.r, Len(self.models))

\* (mutant) the scaled query rows are kept in self.P0
predictKeepsQuery(self, P_star) ==
    IF ~hasattr(self, "models")
    THEN [self |-> self, error |-> "AttributeError", value |-> NoValue]
    ELSE IF Len(self.models) = 0
    THEN [self |-> self, error |-> "IndexError", value |-> NoValue]
    ELSE IF (self.gpr_type # "MultiTask" /\ self.r > Len(self.models))
            \/ self.r > PredCols(self)
    THEN [self |-> [EvalMode(self, PredModels(self)) EXCEPT
                        !.P0 = ScaleWithStored(self, AsRows(P_star))],
          error |-> "IndexError", value |-> NoValue]
    ELSE [self |-> [EvalMode(self, PredModels(self)) EXCEPT
                        !.P0 = ScaleWithStored(self, AsRows(P_star))],
          error |-> "none",
          value |-> [P0_star |-> ScaleWithStored(self, AsRows(P_star)),
                     shape   |-> <<Len(AsRows(P_star)), PredCols(self)>>,
                     Sigma_r |-> SubSeq(self.Sigma_r, 1, self.r)]]

\* GPR.predict(P_star).  P_star is [ndim, val]: a matrix (ndim = 2) or one
\* parameter vector (ndim = 1).  The value returned stands for (A_pred,
\* A_sigma): the scaled query rows the models were evaluated at, the shape
\* of the two arrays and the Sigma_r entries that rescaled their columns.
predict(self, P_star) ==
    IF ~hasattr(self, "models")
    THEN [self |-> self, error |-> "AttributeError", value |-> NoValue]
    ELSE IF Len(self.models) = 0
    THEN [self |-> self, error |-> "IndexError", value |-> NoValue]
    ELSE IF (self.gpr_type # "MultiTask" /\ self.r > Len(self.models))
            \/ self.r > PredCols(self)
    THEN [self |-> EvalMode(self, PredModels(self)), error |-> "IndexError",
          value |-> NoValue]
    ELSE [self |-> EvalMode(self, PredModels(self)), error |-> "none",
          value |-> [P0_star |-> ScaleWithStored(self, AsRows(P_star)),
                     shape   |-> <<Len(AsRows(P_star)), PredCols(self)>>,
                     Sigma_r |-> SubSeq(self.Sigma_r, 1, self.r)]]

(* ------------------------------ update --------------------------------- *)
\* np.zeros_like(M)
ZerosLike(M) == [t \in 1..Len(M) |-> [i \in 1..Len(M[t]) |-> Q(0, 1)]]

\* M with column i replaced by v
SetCol(M, i, v) == [t \in 1..Len(M) |-> [M[t] EXCEPT ![i] = v[t]]]

\* model.set_train_data(X, Y, strict=False)
set_train_data(m, X, Y) == [m EXCEPT !.train_inputs = X, !.train_targets = Y]

\* the oid of the FixedNoiseGaussianLikelihood update creates for model i
\* (the one it created for model i before, if any, is unreachable by then)
FreshOid(self, i) == Len(self.likelihoods) + i

\* the SingleTask loop of update, from mode i on.  sig_tot is
\* Vr_sigma_tot, bound only when A_sigma_new was passed (given).
RECURSIVE UpdateBank(_, _, _, _, _, _, _, _)
RECURSIVE UpdateBankNext(_, _, _, _, _, _, _, _, _)
UpdateBank(i, self, P0_tot, Vr_tot, given, sig_tot, retrain, losses) ==
    IF i > self.r THEN [self |-> self, error |-> "none"]
    ELSE IF i > Len(self.models) THEN [self |-> self, error |-> "IndexError"]
    ELSE IF ~retrain
    THEN UpdateBank(i + 1,
                    [self EXCEPT !.models[i] =
                        set_train_data(@, P0_tot, Col(Vr_tot, i))],
                    P0_tot, Vr_tot, given, sig_tot, retrain, losses)
    ELSE IF ~given
    THEN [self |-> [self EXCEPT !.models[i] =
                        set_train_data(@, P0_tot, Col(Vr_tot, i))],
          error |-> "UnboundLocalError"]
    ELSE UpdateBankNext(i, self, P0_tot, Vr_tot, given, sig_tot, retrain, losses,
            _train(Store(self.objs, FreshOid(self, i),
                         Likelihood("FixedNoise",
                                    [t \in 1..Len(sig_tot) |-> FSq(sig_tot[t][i])])),
                   [set_train_data(self.models[i], P0_tot, Col(Vr_tot, i))
                        EXCEPT !.likelihood = FreshOid(self, i)],
                   self.likelihoods[i], P0_tot, Col(Vr_tot, i), i, FALSE,
                   self.max_iter, self.rel_error, losses[i]))

\* mode i has its new training data and its FixedNoiseGaussianLikelihood and
\* _train has ended as t: self.models[i], self.likelihoods[i] and
\* self.Vr_sigma[:,i] are assigned in this order, the last one raising
\* ValueError when the lengths differ
UpdateBankNext(i, self, P0_tot, Vr_tot, given, sig_tot, retrain, losses, t) ==
    IF ~t.ok
    THEN [self |-> [self EXCEPT !.objs = t.objs, !.models[i] = t.model],
          error |-> t.error]
    ELSE IF Len(t.Vr_sigma) # Len(self.Vr_sigma)
    THEN [self |-> [self EXCEPT !.objs = t.objs, !.models[i] = t.model,
                                !.likelihoods[i] = t.likelihood],
          error |-> "ValueError"]
    ELSE UpdateBank(i + 1,
                    [self EXCEPT !.objs = t.objs, !.models[i] = t.model,
                                 !.likelihoods[i] = t.likelihood,
                                 !.Vr_sigma = SetCol(@, i, t.Vr_sigma)],
                    P0_tot, Vr_tot, given, sig_tot, retrain, losses)

\* (mutant) the joint model is retrained whatever retrain is
UpdateMultiAlways(self, retrain, t) ==
    IF ~t.ok
    THEN [self |-> [self EXCEPT !.objs = t.objs, !.models[1] = t.model],
          error |-> t.error]
    ELSE [self |-> [self EXCEPT !.objs = t.objs, !.models[1] = t.model,
                                !.likelihoods[1] = t.likelihood,
                                !.Vr_sigma = t.Vr_sigma],
          error |-> "none"]

\* the MultiTask branch of update: self.models[0] has its new training data
\* and, if retrain, _train has ended as t
UpdateMulti(self, retrain, t) ==
    IF ~retrain THEN [self |-> self, error |-> "none"]
    ELSE IF ~t.ok
    THEN [self |-> [self EXCEPT !.objs = t.objs, !.models[1] = t.model],
          error |-> t.error]
    ELSE [self |-> [self EXCEPT !.objs = t.objs, !.models[1] = t.model,
                                !.likelihoods[1] = t.likelihood,
                                !.Vr_sigma = t.Vr_sigma],
          error |-> "none"]

\* update from `if self.gpr_type == 'MultiTask'` on
UpdateModels(self, P0_tot, Vr_tot, given, sig_tot, retrain, losses) ==
    IF ~hasattr(self, "models") THEN [self |-> self, error |-> "AttributeError"]
    ELSE IF self.gpr_type = "MultiTask" /\ Len(self.models) = 0
    THEN [self |-> self, error |-> "IndexError"]
    ELSE IF self.gpr_type = "MultiTask"
    THEN UpdateMulti([self EXCEPT !.models[1] = set_train_data(@, P0_tot, Vr_tot)],
                     retrain,
                     _train(self.objs,
                            set_train_data(self.models[1], P0_tot, Vr_tot),
                            self.likelihoods[1], P0_tot, Vr_tot, 1, TRUE,
                            self.max_iter, self.rel_error, losses[1]))
    ELSE UpdateBank(1, self, P0_tot, Vr_tot, given, sig_tot, retrain, losses)

\* Vr_sigma_tot = np.concatenate([self.Vr_sigma, Vr_sigma_new])
SigmaTot(self, A_sigma_new) ==
    self.Vr_sigma \o Normalize(A_sigma_new.val, self.Sigma_r)

\* update from the concatenation of Vr on: P0_tot is built, Vr_new has
\* ncols columns
UpdateSigma(self, P0_tot, Vr_new, A_sigma_new, retrain, losses) ==
    IF NCols(self.Vr) # NCols(Vr_new)
    THEN [self |-> self, error |-> "ValueError"]
    ELSE IF ~A_sigma_new.given
    THEN UpdateModels(self, P0_tot, self.Vr \o Vr_new, FALSE, <<>>, retrain, losses)
    ELSE IF ~hasattr(self, "Vr_sigma")
    THEN [self |-> self, error |-> "AttributeError"]
    ELSE IF NCols(self.Vr_sigma) # NCols(A_sigma_new.val)
    THEN [self |-> self, error |-> "ValueError"]
    ELSE UpdateModels([self EXCEPT !.Vr_sigma = ZerosLike(SigmaTot(self, A_sigma_new))],
                      P0_tot, self.Vr \o Vr_new, TRUE,
                      SigmaTot(self, A_sigma_new), retrain, losses)

\* GPR.update(P_new, A_new, A_sigma_new, retrain).  A_sigma_new is
\* [given, val], given = FALSE standing for None.  Returns the object as
\* the call leaves it and the error raised ("none" when update returns).
update(self, P_new, A_new, A_sigma_new, retrain, losses) ==
    IF ~hasattr(self, "P_cnt") \/ ~hasattr(self, "P0")
       \/ ~hasattr(self, "r") \/ ~hasattr(self, "Sigma_r") \/ ~hasattr(self, "Vr")
    THEN [self |-> self, error |-> "AttributeError"]
    ELSE UpdateSigma(self, self.P0 \o ScaleWithStored(self, P_new),
                     Normalize(A_new, self.Sigma_r), A_sigma_new, retrain, losses)

(* ------------------------------ inputs --------------------------------- *)
\* the design matrices P an object is constructed with: two operating
\* points of one parameter, and two points of two parameters the first of
\* which is constant (zero standard deviation)
Ps == {<<<<0>>, <<2>>>>, <<<<1, 0>>, <<1, 4>>>>}

GprTypes == {"SingleTask", "MultiTask"}

\* scaleP_type: the default and a name scale_GPR_data does not implement
ScaleTypes == {"std", "bogus"}

\* rel_error, in the unit of Sentinel
RelErrs == {0, Sentinel}

\* a column of p coefficients: k in the first row, 0 below (norm k)
ArCol(p, k) == [t \in 1..p |-> IF t = 1 THEN k ELSE 0]

\* the coefficient matrices the decomposition may return for p snapshots:
\* r retained modes of norm 2, of norms 1, 2, .., or with a last mode of
\* zero energy
Ars(p) ==
    UNION {{FromCols([i \in 1..r |-> ArCol(p, 2)], p),
            FromCols([i \in 1..r |-> ArCol(p, i)], p),
            FromCols([i \in 1..r |-> ArCol(p, IF i = r THEN 0 ELSE 2)], p)}
           : r \in 1..MaxModes}

\* the losses a training run inside fit or update evaluates to: each
\* forward pass lowers the loss by one unit
LossRuns == {[t \in 1..(MaxIter + 1) |-> Q(MaxIter + 2 - t, 1)]}

\* matrices of n rows and c columns with entries in vals
Mats(n, c, vals) == [1..n -> [1..c -> vals]]

\* the parameter rows of P_new (two different rows) and of P_star
NewRows(d) == {[i \in 1..d |-> 0], [i \in 1..d |-> 2]}
StarRows(d) == {[i \in 1..d |-> 2]}

\* the entries of A_new and of A_sigma_new
AVals == {2}
SigmaVals == {1}

\* the losses a training run inside fit or update evaluates to, per mode
LossesFor(r) == [1..r -> LossRuns]

(* ------------------------------ state ---------------------------------- *)
VARIABLES
    self,    \* the GPR object: its attributes and the model and likelihood objects
    ret,     \* the last call: its name, arguments, error raised, value returned
    calls,   \* number of calls made on the object
    fitted,  \* whether some fit call has returned
    lastfit, \* how the latest fit call ended: "never", "returned" or "raised"
    atfit,   \* P_cnt, P_scl and Sigma_r as the last fit call left them
    nupd,    \* number of update calls that returned since the last fit returned
    tr       \* the last direct call of _train (specification SpecTrain)

vars == <<self, ret, calls, fitted, lastfit, atfit, nupd, tr>>

Call(op, error) ==
    [op |-> op, error |-> error, P |-> <<>>, ndim |-> 0, A_new |-> <<>>,
     given |-> FALSE, A_sigma_new |-> <<>>, retrain |-> FALSE,
     Ar |-> <<>>, value |-> NoValue]

Stats(s) == [P_cnt |-> s.P_cnt, P_scl |-> s.P_scl, Sigma_r |-> s.Sigma_r]

Init ==
    /\ \E P \in Ps, gpr_type \in GprTypes : self = GPR(P, gpr_type)
    /\ ret = Call("init", "none")
    /\ calls = 0
    /\ fitted = FALSE
    /\ lastfit = "never"
    /\ atfit = Stats(self)
    /\ nupd = 0
    /\ tr = [called |-> FALSE]

\* gpr.fit(scaleP_type=.., max_iter=.., rel_error=..)
Fit ==
    /\ calls < MaxCalls
    /\ \E scaleP_type \in ScaleTypes, max_iter \in {MaxIter},
          rel_error \in RelErrs, Ar \in Ars(Len(self.P)) :
        \E losses \in LossesFor(NCols(Ar)) :
          LET res == fit(self, scaleP_type, max_iter, rel_error, Ar, losses)
          IN  /\ self' = res.self
              /\ ret' = [Call("fit", res.error) EXCEPT !.Ar = Ar]
              /\ fitted' = (fitted \/ res.error = "none")
              /\ lastfit' = IF res.error = "none" THEN "returned" ELSE "raised"
              /\ atfit' = Stats(res.self)
              /\ nupd' = IF res.error = "none" THEN 0 ELSE nupd
    /\ calls' = calls + 1
    /\ UNCHANGED tr

\* gpr.predict(P_star), P_star a matrix or a single parameter vector
Predict ==
    /\ calls < MaxCalls
    /\ \E ndim \in {1, 2}, row \in StarRows(NCols(self.P)) :
          LET P_star == [ndim |-> ndim, val |-> IF ndim = 1 THEN row ELSE <<row>>]
              res    == predict(self, P_star)
          IN  /\ self' = res.self
              /\ ret' = [Call("predict", res.error) EXCEPT
                              !.P = <<row>>, !.ndim = ndim, !.value = res.value]
    /\ calls' = calls + 1
    /\ UNCHANGED <<fitted, lastfit, atfit, nupd, tr>>

\* gpr.update(P_new, A_new, A_sigma_new, retrain); A_new and A_sigma_new
\* have self.r columns (one column if fit never ran)
Update ==
    /\ calls < MaxCalls
    /\ \E n \in 1..MaxNew, given \in BOOLEAN, retrain \in BOOLEAN :
        LET c == IF self.r = 0 THEN 1 ELSE self.r IN
        \E P_new \in [1..n -> NewRows(NCols(self.P))], A_new \in Mats(n, c, AVals),
           A_sig \in Mats(n, c, SigmaVals), losses \in LossesFor(c) :
          LET A_sigma_new == [given |-> given, val |-> IF given THEN A_sig ELSE <<>>]
              res == update(self, P_new, A_new, A_sigma_new, retrain, losses)
          IN  /\ self' = res.self
              /\ ret' = [Call("update", res.error) EXCEPT
                              !.P = P_new, !.A_new = A_new, !.given = given,
                              !.A_sigma_new = A_sigma_new.val, !.retrain = retrain]
              /\ nupd' = IF res.error = "none" THEN nupd + 1 ELSE nupd
    /\ calls' = calls + 1
    /\ UNCHANGED <<fitted, lastfit, atfit, tr>>

Next == Fit \/ Predict \/ Update

Spec == Init /\ [][Next]_vars

(* --------------------- properties of fit/predict/update ---------------- *)
\* s is an initial segment of t
IsPrefix(s, t) == Len(s) <= Len(t) /\ SubSeq(t, 1, Len(s)) = s

\* the last n entries of s
LastRows(s, n) == SubSeq(s, Len(s) - n + 1, Len(s))

\* the models a call of update gives new training data to
Updated(s) == IF s.gpr_type = "MultiTask" THEN {1} ELSE 1..s.r

\* the step is a call of update on an object whose latest fit call returned
UpdateStep == ret'.op = "update" /\ calls' = calls + 1 /\ lastfit = "returned"

\* C1: after a successful fit, the training set of every model only grows
\* over the update calls: an update that follows an earlier update keeps
\* every row the model held, older rows first, and appends its new rows.
C1_TrainingSetOnlyGrows ==
    [][(UpdateStep /\ nupd >= 1)
         => (/\ ret'.error = "none"
             /\ \A i \in 1..Len(self.models) :
                  /\ IsPrefix(self.models[i].train_inputs,
                              self'.models[i].train_inputs)
                  /\ IsPrefix(self.models[i].train_targets,
                              self'.models[i].train_targets)
                  /\ Len(self'.models[i].train_inputs)
                        = Len(self.models[i].train_inputs) + Len(ret'.P)
                  /\ Len(self'.models[i].train_targets)
                        = Len(self.models[i].train_targets) + Len(ret'.A_new))]_vars

\* C2: on a model fitted with p operating points, two calls
\* update(P_new, A_new, retrain=False) with the same n rows leave every model
\* with p + 2n training rows: the p rows of fit, the n new rows, the same n
\* rows again.
C2_TwiceGivesDuplicatedRows ==
    [][(/\ UpdateStep /\ nupd = 1
        /\ ret.op = "update" /\ ret.error = "none"
        /\ ~ret.given /\ ~ret.retrain /\ ~ret'.given /\ ~ret'.retrain
        /\ ret'.P = ret.P /\ ret'.A_new = ret.A_new)
         => (/\ ret'.error = "none"
             /\ \A i \in 1..Len(self.models) :
                  /\ Len(self'.models[i].train_inputs)
                        = Len(self.P) + 2 * Len(ret.P)
                  /\ self'.models[i].train_inputs
                        = self.P0 \o ScaleRows(ret.P, self.P_cnt, self.P_scl)
                                  \o ScaleRows(ret.P, self.P_cnt, self.P_scl))]_vars

\* C3: after a successful fit no predict and no update call changes P_cnt,
\* P_scl or Sigma_r, update appends its new rows scaled with the stored
\* P_cnt and P_scl (and its new directions divided by the stored Sigma_r),
\* and predict evaluates the models at the query rows scaled with them.
C3_ScalingStatisticsKept ==
    [][(fitted /\ ret'.op \in {"predict", "update"} /\ calls' = calls + 1)
         => (/\ Stats(self') = Stats(self)
             /\ (ret'.op = "predict" /\ ret'.error = "none")
                  => ret'.value.P0_star
                       = ScaleRows(ret'.P, atfit.P_cnt, atfit.P_scl)
             /\ (ret'.op = "update" /\ ret'.error = "none")
                  => \A i \in Updated(self) :
                       /\ LastRows(self'.models[i].train_inputs, Len(ret'.P))
                            = ScaleRows(ret'.P, atfit.P_cnt, atfit.P_scl)
                       /\ LastRows(self'.models[i].train_targets, Len(ret'.A_new))
                            = (IF self.gpr_type = "MultiTask"
                               THEN Normalize(ret'.A_new, atfit.Sigma_r)
                               ELSE Col(Normalize(ret'.A_new, atfit.Sigma_r), i)))]_vars

\* C3 (witness): a predict call has returned on a fitted object, after an
\* update call had returned
C3_Witness ==
    fitted /\ nupd >= 1 /\ ret.op = "predict" /\ ret.error = "none"

\* the noise the claim C4 gives the likelihood of model i: the stored values
\* of mode i, then A_sigma_new[:,i]/Sigma_r[i], all squared
ClaimedNoise(s, A_sigma_new, i) ==
    [t \in 1..(Len(s.Vr_sigma) + Len(A_sigma_new)) |->
        FSq((Col(s.Vr_sigma, i) \o Col(Normalize(A_sigma_new, s.Sigma_r), i))[t])]

\* C4: on the independent bank, update with A_sigma_new supplied and
\* retrain=True returns with the likelihood of every model i replaced by a
\* fixed-noise likelihood whose noise is the previously stored values of
\* mode i followed by A_sigma_new[:,i]/Sigma_r[i], all squared.
C4_FixedNoiseOnEveryModel ==
    [][(UpdateStep /\ self.gpr_type = "SingleTask" /\ ret'.given /\ ret'.retrain)
         => (/\ ret'.error = "none"
             /\ \A i \in 1..self.r :
                  /\ self'.objs[self'.models[i].likelihood].kind = "FixedNoise"
                  /\ self'.objs[self'.models[i].likelihood].noise
                        = ClaimedNoise(self, ret'.A_sigma_new, i))]_vars

\* C5: on the independent bank, update with retrain=True and A_sigma_new
\* None keeps every model's likelihood, runs the Trainer on every model and
\* returns without raising an error.
C5_RetrainWithoutSigma ==
    [][(UpdateStep /\ self.gpr_type = "SingleTask" /\ ret'.retrain /\ ~ret'.given)
         => (/\ ret'.error = "none"
             /\ \A i \in 1..self.r :
                  /\ self'.models[i].likelihood = self.models[i].likelihood
                  /\ self'.models[i].hyp > self.models[i].hyp)]_vars

\* C8: fit fails with a DegenerateModeError whenever some column of Ar has
\* zero norm, and does not store the Vr computed by dividing by that zero.
C8_DegenerateModeError ==
    (ret.op = "fit" /\ \E i \in 1..NCols(ret.Ar) : Norm(Col(ret.Ar, i)) = 0)
        => (/\ ret.error = "DegenerateModeError"
            /\ ~(hasattr(self, "Vr")
                  /\ self.Vr = Normalize(ret.Ar, SigmaOf(ret.Ar))))

\* the object with the train/eval mode of every model and likelihood erased
Frozen(s) ==
    [s EXCEPT !.models = [i \in 1..Len(s.models) |->
                             [s.models[i] EXCEPT !.mode = "-"]],
              !.objs = [o \in DOMAIN s.objs |-> [s.objs[o] EXCEPT !.mode = "-"]]]

\* C9: apart from switching models and likelihoods to evaluation mode, a
\* predict call leaves every attribute of the object as it was: P0, Vr, each
\* model's training data, hyperparameters and likelihood, Vr_sigma, P_cnt,
\* P_scl and Sigma_r.
C9_PredictKeepsState ==
    [][(ret'.op = "predict" /\ calls' = calls + 1)
         => Frozen(self') = Frozen(self)]_vars

\* C9 (witness): predict has returned on an object that was fitted and
\* updated, and has switched its first model to evaluation mode
C9_Witness ==
    /\ ret.op = "predict" /\ ret.error = "none" /\ nupd >= 1
    /\ self.models[1].mode = "eval"
    /\ self.objs[self.models[1].likelihood].mode = "eval"

\* the training targets update gives model i: the stored directions followed
\* by the new ones (column i of them on the independent bank)
NewTargets(s, A_new, i) ==
    IF s.gpr_type = "MultiTask" THEN s.Vr \o Normalize(A_new, s.Sigma_r)
    ELSE Col(s.Vr \o Normalize(A_new, s.Sigma_r), i)

\* C12: update with retrain=False takes no optimizer step and leaves every
\* model's hyperparameters and likelihood (and every likelihood object)
\* unchanged; a call that returns has given each model, as its only change,
\* the training data made of the stored rows self.P0, self.Vr followed by
\* the new rows.
C12_NoRetrainOnlyReplacesData ==
    [][(ret'.op = "update" /\ calls' = calls + 1 /\ ~ret'.retrain)
         => (/\ self'.objs = self.objs
             /\ self'.likelihoods = self.likelihoods
             /\ Len(self'.models) = Len(self.models)
             /\ \A i \in 1..Len(self.models) :
                  /\ self'.models[i].hyp = self.models[i].hyp
                  /\ self'.models[i].likelihood = self.models[i].likelihood
                  /\ self'.models[i].mode = self.models[i].mode
             /\ ret'.error = "none"
                  => \A i \in 1..Len(self.models) :
                       IF i \in Updated(self)
                       THEN self'.models[i]
                              = [self.models[i] EXCEPT
                                   !.train_inputs = self.P0
                                       \o ScaleRows(ret'.P, self.P_cnt, self.P_scl),
                                   !.train_targets = NewTargets(self, ret'.A_new, i)]
                       ELSE self'.models[i] = self.models[i])]_vars

\* C12 (witness): an update with retrain=False has returned on a fitted and
\* already updated object, leaving the first model the stored rows and the
\* new rows
C12_Witness ==
    /\ lastfit = "returned" /\ nupd >= 2
    /\ ret.op = "update" /\ ret.error = "none" /\ ~ret.retrain
    /\ Len(self.models[1].train_inputs) = Len(self.P0) + Len(ret.P)

\* C13: after a successful fit and any update calls, Vr_sigma has as many
\* rows as the training set of every model, and a fixed-noise likelihood
\* that update builds for a retrain has one noise entry per training row
\* handed to the Trainer.
C13_CacheRowsMatchTrainingRows ==
    [][UpdateStep
         => (/\ ret'.error = "none"
                  => \A i \in 1..Len(self'.models) :
                       Len(self'.Vr_sigma) = Len(self'.models[i].train_inputs)
             /\ (self.gpr_type = "SingleTask" /\ ret'.given /\ ret'.retrain)
                  => Len(self'.objs[self'.models[1].likelihood].noise)
                       = Len(self'.models[1].train_inputs))]_vars

\* C14: in the independent bank, after fit and after any update calls, the
\* likelihood stored as likelihoods[i] is the likelihood object attached to
\* models[i] (the one a retrain of mode i hands to the Trainer for the
\* marginal log likelihood).
C14_BankLikelihoodIsModelLikelihood ==
    (self.gpr_type = "SingleTask" /\ lastfit = "returned")
        => \A i \in 1..Len(self.models) :
             self.likelihoods[i] = self.models[i].likelihood

\* what a successful fit produces and predict and update later read
FitProducts(s) ==
    [Sigma_r |-> s.Sigma_r, r |-> s.r, Ar |-> s.Ar, P0 |-> s.P0, Vr |-> s.Vr,
     P_cnt |-> s.P_cnt, P_scl |-> s.P_scl, models |-> s.models,
     likelihoods |-> s.likelihoods, Vr_sigma |-> s.Vr_sigma]

\* C15: a fit call that raises has no partial effect: on an object whose
\* previous fit returned, Sigma_r, r, Ar, P0, Vr, P_cnt, P_scl and the models
\* are afterwards still the ones that fit produced.
C15_FailedFitHasNoEffect ==
    [][(ret'.op = "fit" /\ calls' = calls + 1 /\ ret'.error # "none"
        /\ lastfit = "returned")
         => FitProducts(self') = FitProducts(self)]_vars

\* C7: predict or update called on an object on which no fit has succeeded
\* fails with the not-fitted error (AttributeError in this code) and
\* returns no result, whether fit was never called or every fit call so far
\* raised.
C7_NotFittedError ==
    (ret.op \in {"predict", "update"} /\ ~fitted)
        => (ret.error = "AttributeError" /\ ret.value = NoValue)

(* ------------------- the trainer called on its own --------------------- *)
\* rel_error and the losses of a direct call of _train, in the unit of
\* Sentinel; a loss may be NaN
TrainRelErrs == {0, 1, Sentinel}
LossVals == {Q(0, 1), Q(1, 1), Q(Sentinel, 1), NaN}
TrainLosses == [1..(MaxIter + 1) -> LossVals]

\* the record kept of a call of _train
TrainRecord(max_iter, rel_error, multi, t) ==
    [called |-> TRUE, max_iter |-> max_iter, rel_error |-> Q(rel_error, 1),
     multi |-> multi, j |-> t.j, es |-> t.es, e |-> t.e, error |-> t.error,
     hyp |-> t.model.hyp, mode |-> t.model.mode, mll |-> t.mll,
     fwd_mode |-> t.fwd_mode, fwd_hyp |-> t.fwd_hyp, Vr_sigma |-> t.Vr_sigma,
     nrows |-> Len(t.model.train_inputs)]

\* _train called once as fit calls it, on a model fit has just built for the
\* first mode (or for all modes, MultiTask)
TrainCall ==
    /\ ~tr.called
    /\ \E multi \in BOOLEAN, max_iter \in 0..MaxIter, rel_error \in TrainRelErrs,
          losses \in TrainLosses, Ar \in Ars(Len(self.P)) :
          tr' = TrainRecord(max_iter, rel_error, multi,
                    _train(Store(<<>>, 1, Likelihood("Gaussian", <<>>)),
                           ExactGPModel(scale_GPR_data(self.P, "std").P0,
                                        IF multi THEN Normalize(Ar, SigmaOf(Ar))
                                        ELSE Col(Normalize(Ar, SigmaOf(Ar)), 1), 1),
                           1, scale_GPR_data(self.P, "std").P0,
                           IF multi THEN Normalize(Ar, SigmaOf(Ar))
                           ELSE Col(Normalize(Ar, SigmaOf(Ar)), 1),
                           1, multi, max_iter, rel_error, losses))
    /\ UNCHANGED <<self, ret, calls, fitted, lastfit, atfit, nupd>>

SpecTrain == Init /\ [][TrainCall]_vars

(* ------------------------ properties of _train ------------------------- *)
\* C6: every call of the Trainer (with a budget max_iter >= 1) runs at least
\* one iteration whatever rel_error is, and with max_iter = 1 it takes
\* exactly one optimizer step.
C6_AtLeastOneIteration ==
    (tr.called /\ tr.max_iter >= 1)
        => (tr.j >= 1 /\ (tr.max_iter = 1 => tr.j = 1))

\* some iteration of the recorded call had a loss change e <= rel_error
SomeConverged == \E k \in 1..Len(tr.es) : FLe(tr.es[k], tr.rel_error)

\* C10 (as claimed): a Trainer call ends after at most max_iter optimizer
\* steps; it ends with fewer than max_iter steps exactly when some
\* iteration's loss change e was <= rel_error, and otherwise with max_iter
\* steps and no error.
C10_StopsBeforeBudgetIffConverged ==
    tr.called => (/\ tr.j <= tr.max_iter
                  /\ (tr.j < tr.max_iter) <=> SomeConverged
                  /\ ~SomeConverged => (tr.j = tr.max_iter /\ tr.error = "none"))

\* the value of e the k-th test of the loop condition reads: the sentinel
\* before the first iteration, then the loss change of iteration k - 1
TestedE(k) == IF k = 1 THEN Q(Sentinel, 1) ELSE tr.es[k - 1]

\* C10 (amended): a Trainer call ends after at most max_iter optimizer
\* steps, one loss change e per step; every iteration was entered on a test
\* e > rel_error that held (the first one on the sentinel), and a call that
\* ends with fewer than max_iter steps ends on a test e > rel_error that
\* failed, which a NaN loss change also does; a call of at least one step
\* raises no error and a call of no step raises UnboundLocalError.
C10_StopsOnFailedTestOrBudget ==
    tr.called => (/\ tr.j <= tr.max_iter
                  /\ Len(tr.es) = tr.j
                  /\ \A k \in 1..tr.j : FGt(TestedE(k), tr.rel_error)
                  /\ tr.j < tr.max_iter => ~FGt(TestedE(tr.j + 1), tr.rel_error)
                  /\ tr.error = (IF tr.j >= 1 THEN "none" ELSE "UnboundLocalError"))

\* C10 (witness): a call has stopped before its budget on a loss change
\* e <= rel_error
C10_Witness ==
    /\ tr.called /\ tr.j >= 1 /\ tr.j < tr.max_iter
    /\ FLe(tr.es[tr.j], tr.rel_error)

\* the standard deviations the recorded call returned, as one flat sequence
ReturnedSDs ==
    IF tr.multi
    THEN [k \in 1..(tr.nrows * NCols(tr.Vr_sigma)) |->
            tr.Vr_sigma[((k - 1) \div NCols(tr.Vr_sigma)) + 1]
                       [((k - 1) % NCols(tr.Vr_sigma)) + 1]]
    ELSE tr.Vr_sigma

\* C11: the standard deviation a Trainer call returns comes from a forward
\* pass made in evaluation mode after the last optimizer step, i.e. with all
\* the steps of the call applied to the hyperparameters.
C11_StddevFromEvalAfterLastStep ==
    (tr.called /\ tr.error = "none")
        => (/\ tr.fwd_mode = "eval"
            /\ tr.fwd_hyp = tr.hyp
            /\ \A k \in 1..Len(ReturnedSDs) :
                 ReturnedSDs[k].sd = "eval" /\ ReturnedSDs[k].hyp = tr.hyp)

====
